---- MODULE Spec2Model ----
(***************************************************************************)
(* User prompts and new-project trigger handling of the Dart extension     *)
(* (src/webpack.config.js, lines 38-200).                                  *)
(*                                                                         *)
(* Conventions.  A JavaScript value that may be undefined is a sequence of *)
(* length at most one: <<>> is undefined, <<v>> is the value v.  A string  *)
(* the code takes apart (a path, a file's content) is a sequence of        *)
(* tokens; a string the code only passes along or compares is a string.    *)
(* Time is counted in hours.                                               *)
(***************************************************************************)
EXTENDS Integers, Sequences, FiniteSets, Bags, TLC

\* Bounds of the model.
MaxDevCalls == 2
MaxTime == 22
MaxCalls == 3
MaxMarkers == 2

VARIABLES
    hasAnyFlutterProjects,           \* workspaceContext.hasAnyFlutterProjects
    hasFlutterExtension,             \* utils.hasFlutterExtension
    isDevExtension,                  \* utils.isDevExtension
    files,                           \* the filesystem: path -> content
    contextState,                    \* hasPrompted.<key> entries of the persisted store
    promptCalls,                     \* the calls of showUserPrompts and their pending prompts
    tasks,                           \* the pending trigger handlers, one per marker file
    browser,                         \* the URLs opened with openInBrowser
    unhandledRejections,             \* rejected promises nobody handles
    devToolsNotificationsShown,      \* persisted shown-count
    devToolsNotificationLastShown,   \* persisted last-shown timestamp (optional)
    devToolsNotificationDoNotShow,   \* persisted opt-out flag
    now,                             \* Date.now(), in hours
    devCalls,                        \* frames of the calls of showDevToolsNotificationIfAppropriate
    commands,                        \* bag of the host commands executed
    messages                         \* bag of the error / information messages shown

devToolsVars == <<devToolsNotificationsShown, devToolsNotificationLastShown,
                  devToolsNotificationDoNotShow, now, devCalls>>
environment == <<hasAnyFlutterProjects, hasFlutterExtension, isDevExtension>>
promptVars == <<hasAnyFlutterProjects, hasFlutterExtension, isDevExtension, files, contextState, promptCalls,
                tasks, browser, unhandledRejections>>

vars == <<hasAnyFlutterProjects, hasFlutterExtension, isDevExtension, files, promptCalls, tasks, browser,
          unhandledRejections, contextState, devToolsNotificationsShown, devToolsNotificationLastShown,
          devToolsNotificationDoNotShow, now, devCalls, commands, messages>>

Undefined == <<>>
Some(v) == <<v>>

\* ---------------------------------------------------------------------------
\* Constants imported from ./constants (line 41).
openDevToolsAction == "Open DevTools"
noThanksAction == "No Thanks"
doNotAskAgainAction == "Never Ask"
noRepeatPromptThreshold == 20

\* What the user can do with the three-button notification: press a button or
\* dismiss it (the promise resolves to undefined).
DevToolsChoices ==
    {Some(openDevToolsAction), Some(noThanksAction), Some(doNotAskAgainAction), Undefined}

\* ---------------------------------------------------------------------------
\* showDevToolsNotificationIfAppropriate

Command(name, args) == [name |-> name, args |-> args]
Message(severity, text) == [severity |-> severity, text |-> text]

\* JavaScript truthiness of an optional number: undefined and 0 are falsy.
TruthyNumber(v) == v # Undefined /\ v[1] # 0

\* Variants of line 81: the count compared with > instead of >=; the opt-out
\* flag not consulted.
SkipByOptOutOrCountAbove(doNotShow, timesShown) == doNotShow \/ timesShown > 10

SkipByCountOnly(doNotShow, timesShown) == timesShown >= 10

\* Line 81: if (doNotShow || timesShown >= 10) return false;
SkipByOptOutOrCount(doNotShow, timesShown) == doNotShow \/ timesShown >= 10

\* Variant of line 85: the elapsed time compared with <= instead of <.
SkipByRecentlyShownInclusive(lastShown, t) ==
    TruthyNumber(lastShown) /\ t - lastShown[1] <= noRepeatPromptThreshold

\* Line 85: if (lastShown && Date.now() - lastShown < noRepeatPromptThreshold) return false;
SkipByRecentlyShown(lastShown, t) ==
    TruthyNumber(lastShown) /\ t - lastShown[1] < noRepeatPromptThreshold

\* Line 88: context.devToolsNotificationsShown++
IncrementShown(n) == n + 1

\* Variant of lines 92-101: every choice but the permanent decline opens DevTools.
AfterChoiceOpensUnlessDeclinedForGood(choice) ==
    IF choice = Some(doNotAskAgainAction)
    THEN [setDoNotShow |-> TRUE, openDevTools |-> FALSE, result |-> FALSE]
    ELSE [setDoNotShow |-> FALSE, openDevTools |-> TRUE, result |-> TRUE]

\* Variant of lines 92-101: "No Thanks" opts out as well.
AfterChoiceDeclineOptsOut(choice) ==
    IF choice = Some(doNotAskAgainAction) \/ choice = Some(noThanksAction)
    THEN [setDoNotShow |-> TRUE, openDevTools |-> FALSE, result |-> FALSE]
    ELSE IF choice = Some(openDevToolsAction)
    THEN [setDoNotShow |-> FALSE, openDevTools |-> TRUE, result |-> TRUE]
    ELSE [setDoNotShow |-> FALSE, openDevTools |-> FALSE, result |-> FALSE]

\* Lines 92-101: what the code does with the user's choice.
AfterChoice(choice) ==
    IF choice = Some(doNotAskAgainAction)
    THEN [setDoNotShow |-> TRUE, openDevTools |-> FALSE, result |-> FALSE]
    ELSE IF choice = Some(openDevToolsAction)
    THEN [setDoNotShow |-> FALSE, openDevTools |-> TRUE, result |-> TRUE]
    ELSE [setDoNotShow |-> FALSE, openDevTools |-> FALSE, result |-> FALSE]

\* Variant of line 91: the await wrapped in a try/catch that reports the error
\* and returns false.
AfterMessageFailureCaught ==
    [pc |-> "returned", showsError |-> TRUE]

\* Line 91: the awaited showInformationMessage is rejected.  The function has no
\* try/catch, so the rejection becomes the rejection of its own promise.
AfterMessageFailure ==
    [pc |-> "rejected", showsError |-> FALSE]

\* Variant of line 89: the timestamp is not written before the await.
LastShownWrittenAfterAwait(previous, t) == previous

\* Line 89: context.devToolsNotificationLastShown = Date.now()
LastShownAtDisplay(previous, t) == Some(t)

IdleDevCall ==
    [pc |-> "idle", at |-> 0, lastShown |-> Undefined, timesShown |-> 0, doNotShow |-> FALSE,
     displayed |-> FALSE, choice |-> Undefined, failed |-> FALSE, result |-> Undefined]

\* Lines 75-91: the synchronous part of a call, up to the await.  The frame keeps
\* the three values read at lines 76-78 and the time of the call.
DevToolsCall(c) ==
    /\ devCalls[c].pc = "idle"
    /\ \A d \in 1..(c - 1) : devCalls[d].pc # "idle"
    /\ LET lastShown == devToolsNotificationLastShown
           timesShown == devToolsNotificationsShown
           doNotShow == devToolsNotificationDoNotShow
           frame == [devCalls[c] EXCEPT !.at = now,
                                        !.lastShown = lastShown,
                                        !.timesShown = timesShown,
                                        !.doNotShow = doNotShow]
       IN IF SkipByOptOutOrCount(doNotShow, timesShown) \/ SkipByRecentlyShown(lastShown, now)
          THEN /\ devCalls' = [devCalls EXCEPT ![c] =
                                 [frame EXCEPT !.pc = "returned", !.result = Some(FALSE)]]
               /\ UNCHANGED <<devToolsNotificationsShown, devToolsNotificationLastShown>>
          ELSE /\ devToolsNotificationsShown' = IncrementShown(devToolsNotificationsShown)
               /\ devToolsNotificationLastShown' =
                      LastShownAtDisplay(devToolsNotificationLastShown, now)
               /\ devCalls' = [devCalls EXCEPT ![c] =
                                 [frame EXCEPT !.pc = "awaiting", !.displayed = TRUE]]
    /\ UNCHANGED <<promptVars, devToolsNotificationDoNotShow, now, commands, messages>>

\* Lines 91-101: the notification resolves with the user's choice.
DevToolsChoice(c) ==
    /\ devCalls[c].pc = "awaiting"
    /\ \E choice \in DevToolsChoices :
         LET after == AfterChoice(choice)
         IN /\ devToolsNotificationDoNotShow' =
                   (IF after.setDoNotShow THEN TRUE ELSE devToolsNotificationDoNotShow)
            /\ commands' = (IF after.openDevTools
                            THEN commands (+) SetToBag({Command("dart.openDevTools", <<>>)})
                            ELSE commands)
            /\ devCalls' = [devCalls EXCEPT ![c].pc = "returned",
                                            ![c].choice = choice,
                                            ![c].result = Some(after.result)]
    /\ UNCHANGED <<promptVars, devToolsNotificationsShown, devToolsNotificationLastShown,
                   now, messages>>

\* Line 91: the host message API fails.
DevToolsMessageFails(c) ==
    /\ devCalls[c].pc = "awaiting"
    /\ LET after == AfterMessageFailure
       IN /\ devCalls' = [devCalls EXCEPT ![c].pc = after.pc,
                                          ![c].failed = TRUE,
                                          ![c].result = (IF after.pc = "returned"
                                                         THEN Some(FALSE) ELSE Undefined)]
          /\ messages' = (IF after.showsError
                          THEN messages (+) SetToBag({Message("error", "message failed")})
                          ELSE messages)
    /\ UNCHANGED <<promptVars, devToolsNotificationsShown, devToolsNotificationLastShown,
                   devToolsNotificationDoNotShow, now, commands>>

\* The clock advances.
ClockSteps == {1, 19}
Tick ==
    /\ \E d \in ClockSteps : now + d <= MaxTime /\ now' = now + d
    /\ UNCHANGED <<promptVars, devToolsNotificationsShown, devToolsNotificationLastShown,
                   devToolsNotificationDoNotShow, devCalls, commands, messages>>

\* ---------------------------------------------------------------------------
\* Strings as token sequences: String.prototype.trim, path.join, path.basename,
\* String.prototype.replace with a string pattern (first occurrence only),
\* split / slice / join.

IsWhitespace(tok) == tok \in {" ", "\n", "\t"}

RECURSIVE TrimStart(_)
TrimStart(s) == IF s # <<>> /\ IsWhitespace(Head(s)) THEN TrimStart(Tail(s)) ELSE s

RECURSIVE TrimEnd(_)
TrimEnd(s) ==
    IF s # <<>> /\ IsWhitespace(s[Len(s)]) THEN TrimEnd(SubSeq(s, 1, Len(s) - 1)) ELSE s

\* Lines 142, 162: .toString().trim()
Trim(s) == TrimEnd(TrimStart(s))

\* The string a token sequence spells.
RECURSIVE Text(_)
Text(s) == IF s = <<>> THEN "" ELSE Head(s) \o Text(Tail(s))

SetMax(S) == CHOOSE x \in S : \A y \in S : y <= x
SetMin(S) == CHOOSE x \in S : \A y \in S : x <= y

\* Lines 140, 160, 184, 196: path.join(a, b)
PathJoin(a, b) == a \o <<"/">> \o b

\* Line 195: path.basename(p)
Basename(p) ==
    LET seps == {i \in 1..Len(p) : p[i] = "/"}
        last == IF seps = {} THEN 0 ELSE SetMax(seps)
    IN SubSeq(p, last + 1, Len(p))

\* Lines 65, 196: s.replace(pattern, replacement) with a string pattern replaces
\* the first occurrence only.
ReplaceFirst(s, pattern, replacement) ==
    LET hits == {i \in 1..Len(s) : s[i] = pattern}
    IN IF hits = {} THEN s
       ELSE LET i == SetMin(hits)
            IN SubSeq(s, 1, i - 1) \o replacement \o SubSeq(s, i + 1, Len(s))

\* Line 65: s.split(sep), as the sequence of the parts (each a token sequence).
RECURSIVE Split(_, _)
Split(s, sep) ==
    LET hits == {i \in 1..Len(s) : s[i] = sep}
    IN IF hits = {} THEN <<s>>
       ELSE LET i == SetMin(hits)
            IN <<SubSeq(s, 1, i - 1)>> \o Split(SubSeq(s, i + 1, Len(s)), sep)

\* Line 65: parts.join(sep)
RECURSIVE Join(_, _)
Join(parts, sep) ==
    IF parts = <<>> THEN <<>>
    ELSE IF Len(parts) = 1 THEN parts[1]
    ELSE parts[1] \o <<sep>> \o Join(Tail(parts), sep)

\* Line 65: parts.slice(0, n)
SliceFirst(parts, n) == SubSeq(parts, 1, IF n < Len(parts) THEN n ELSE Len(parts))

\* JavaScript truthiness of an optional string (token sequence): undefined and
\* the empty string are falsy.
TruthyString(v) == v # Undefined /\ v[1] # <<>>

\* ---------------------------------------------------------------------------
\* Constants imported from ./utils (line 44) and the module's own (lines 46-47).
promptPrefix == "hasPrompted."
installFlutterExtensionPromptKey == "install_flutter_extension"
extensionVersion == <<"3", ".", "1", ".", "0">>
DART_STAGEHAND_PROJECT_TRIGGER_FILE == "dart.sh.create"
FLUTTER_STAGEHAND_PROJECT_TRIGGER_FILE == "flutter.sh.create"
FLUTTER_CREATE_PROJECT_TRIGGER_FILE == "flutter.create"

\* Line 65
versionLink ==
    ReplaceFirst(Join(SliceFirst(Split(extensionVersion, "."), 2), "."), ".", <<"-">>)

\* Line 66
releaseNotesKeyForThisVersion == "release_notes_" \o Text(extensionVersion)

PromptKeys == {installFlutterExtensionPromptKey, releaseNotesKeyForThisVersion}

\* Lines 53, 61: const stateKey = `${promptPrefix}${key}`
StateKey(key) == promptPrefix \o key

\* getDartWorkspaceFolders(): the workspace folders, in the order of discovery.
WorkspaceFolders == << <<"/", "proj">>, <<"/", "ws", "/", "app">> >>

FolderIds == 1..Len(WorkspaceFolders)

\* fsPath(wf.uri)
FsPath(f) == WorkspaceFolders[f]

\* The three trigger files of a folder, in the order line 133-135 handles them.
TriggerFiles ==
    <<DART_STAGEHAND_PROJECT_TRIGGER_FILE, FLUTTER_STAGEHAND_PROJECT_TRIGGER_FILE,
      FLUTTER_CREATE_PROJECT_TRIGGER_FILE>>

StagehandTriggers == {DART_STAGEHAND_PROJECT_TRIGGER_FILE, FLUTTER_STAGEHAND_PROJECT_TRIGGER_FILE}

Markers == FolderIds \X {TriggerFiles[i] : i \in 1..Len(TriggerFiles)}

\* Lines 140, 160
TriggerPath(f, triggerFilename) == PathJoin(FsPath(f), <<triggerFilename>>)

\* ---------------------------------------------------------------------------
\* The filesystem (fs.existsSync, fs.readFileSync, fs.unlinkSync).
ExistsSync(fs, p) == p \in DOMAIN fs
ReadFileSync(fs, p) == fs[p]
UnlinkSync(fs, p) == [q \in DOMAIN fs \ {p} |-> fs[q]]
WriteFile(fs, p, content) == [q \in DOMAIN fs \cup {p} |-> IF q = p THEN content ELSE fs[q]]

\* ---------------------------------------------------------------------------
\* JSON.parse (line 145) on the documents a marker file can hold.  A document
\* is one token; whitespace around it is allowed; anything else is a syntax
\* error.
ConsoleTemplateJson ==
    "{\"name\":\"console-full\",\"label\":\"Console Application\",\"entrypoint\":\"bin/__projectName__.dart\"}"

ConsoleTemplate ==
    [kind |-> "object",
     name |-> Some("console-full"),
     label |-> Some("Console Application"),
     entrypoint |-> Some(<<"bin", "/", "__projectName__", ".dart">>)]

\* A descriptor whose entrypoint pattern names the project twice.
PackageTemplateJson ==
    "{\"name\":\"package-simple\",\"label\":\"Dart Package\",\"entrypoint\":\"lib/__projectName__/__projectName__.dart\"}"

PackageTemplate ==
    [kind |-> "object",
     name |-> Some("package-simple"),
     label |-> Some("Dart Package"),
     entrypoint |-> Some(<<"lib", "/", "__projectName__", "/", "__projectName__", ".dart">>)]

JsonNull == [kind |-> "null"]

JsonParse(s) ==
    LET t == Trim(s)
    IN IF t = <<ConsoleTemplateJson>> THEN [ok |-> TRUE, value |-> ConsoleTemplate]
       ELSE IF t = <<PackageTemplateJson>> THEN [ok |-> TRUE, value |-> PackageTemplate]
       ELSE IF t = <<"null">> THEN [ok |-> TRUE, value |-> JsonNull]
       ELSE [ok |-> FALSE, value |-> JsonNull]

\* What a marker file can hold when the extension starts.
StagehandContents ==
    {<<ConsoleTemplateJson, "\n">>, <<PackageTemplateJson>>, <<"{", "\"name\"", ":">>, <<"null">>}

FlutterCreateContents ==
    {<<>>, <<" ", "\n">>, <<"material.AppBar.1", "\n">>}

MarkerContents(m) ==
    IF m[2] \in StagehandTriggers THEN StagehandContents ELSE FlutterCreateContents

\* ---------------------------------------------------------------------------
\* Trigger files (lines 131-200).  The synchronous part of a handler maps the
\* state it touches, s = [files, tasks, commands, messages, handled, unhandled],
\* to the state it leaves; what follows an await is an action of its own.

NoTask ==
    [pc |-> "none", template |-> JsonNull, sampleID |-> Undefined, code |-> Undefined,
     entryFile |-> Undefined]

Handled(f, triggerFilename, outcome) ==
    [folder |-> f, trigger |-> triggerFilename, outcome |-> outcome]

AddCommand(cmds, name, args) == cmds (+) SetToBag({Command(name, args)})
AddMessage(msgs, severity, text) == msgs (+) SetToBag({Message(severity, text)})

\* Variant of lines 142-150: the marker deleted before it is parsed.
StagehandParseFailedAfterUnlink(s, f, triggerFilename) ==
    [s EXCEPT !.files = UnlinkSync(@, TriggerPath(f, triggerFilename)),
              !.messages = AddMessage(@, "error", "Failed to run Stagehand to create project"),
              !.handled = Append(@, Handled(f, triggerFilename, "parseError"))]

\* Lines 146-149: JSON.parse threw.
StagehandParseFailed(s, f, triggerFilename) ==
    [s EXCEPT !.messages = AddMessage(@, "error", "Failed to run Stagehand to create project"),
              !.handled = Append(@, Handled(f, triggerFilename, "parseError"))]

\* Variant of lines 150-151: the marker is left for after the awaited create.
StagehandParsedKeepsMarker(s, f, triggerFilename, template) ==
    IF template.kind = "null"
    THEN [s EXCEPT
            !.tasks[<<f, triggerFilename>>] = [NoTask EXCEPT !.pc = "threw"],
            !.unhandled = @ + 1,
            !.handled = Append(@, Handled(f, triggerFilename, "threw"))]
    ELSE [s EXCEPT
            !.commands = AddCommand(@, "_dart.create", <<FsPath(f), template.name>>),
            !.tasks[<<f, triggerFilename>>] =
                [NoTask EXCEPT !.pc = "creating", !.template = template],
            !.handled = Append(@, Handled(f, triggerFilename, "create"))]

\* Lines 150-151, up to the await: the marker is deleted, then createDartProject
\* runs up to its own await (line 173), which has invoked _dart.create.  Reading
\* template.name of null throws, which rejects the handler's promise.
StagehandParsed(s, f, triggerFilename, template) ==
    LET triggerFile == TriggerPath(f, triggerFilename)
        unlinked == [s EXCEPT !.files = UnlinkSync(@, triggerFile)]
    IN IF template.kind = "null"
       THEN [unlinked EXCEPT
               !.tasks[<<f, triggerFilename>>] = [NoTask EXCEPT !.pc = "threw"],
               !.unhandled = @ + 1,
               !.handled = Append(@, Handled(f, triggerFilename, "threw"))]
       ELSE [unlinked EXCEPT
               !.commands = AddCommand(@, "_dart.create", <<FsPath(f), template.name>>),
               !.tasks[<<f, triggerFilename>>] =
                   [NoTask EXCEPT !.pc = "creating", !.template = template],
               !.handled = Append(@, Handled(f, triggerFilename, "create"))]

\* Lines 139-151: handleStagehandTrigger, up to its first await.
HandleStagehandTrigger(s, f, triggerFilename) ==
    LET triggerFile == TriggerPath(f, triggerFilename)
    IN IF ~ExistsSync(s.files, triggerFile) THEN s
       ELSE LET templateJson == Trim(ReadFileSync(s.files, triggerFile))
                parsed == JsonParse(templateJson)
            IN IF ~parsed.ok
               THEN StagehandParseFailed(s, f, triggerFilename)
               ELSE StagehandParsed(s, f, triggerFilename, parsed.value)

\* Variant of line 163: the trimmed content passed on as it was read.
SampleIdOfAsRead(content) == Some(content)

\* Line 163: sampleID = sampleID ? sampleID : undefined
SampleIdOf(content) == IF TruthyString(Some(content)) THEN Some(content) ELSE Undefined

\* Line 178: const projectName = sampleID ? "sample" : undefined
FlutterProjectName(sampleID) == IF TruthyString(sampleID) THEN Some("sample") ELSE Undefined

\* Variant of lines 159-165: the trigger file is not deleted before the create.
HandleFlutterCreateTriggerKeepsMarker(s, f) ==
    LET flutterTriggerFile == TriggerPath(f, FLUTTER_CREATE_PROJECT_TRIGGER_FILE)
    IN IF ~ExistsSync(s.files, flutterTriggerFile) THEN s
       ELSE LET sampleID == SampleIdOf(Trim(ReadFileSync(s.files, flutterTriggerFile)))
            IN [s EXCEPT
                  !.commands = AddCommand(@, "_flutter.create",
                                          <<FsPath(f), FlutterProjectName(sampleID), sampleID>>),
                  !.tasks[<<f, FLUTTER_CREATE_PROJECT_TRIGGER_FILE>>] =
                      [NoTask EXCEPT !.pc = "creating", !.sampleID = sampleID],
                  !.handled = Append(@, Handled(f, FLUTTER_CREATE_PROJECT_TRIGGER_FILE, "create"))]

\* Lines 159-165: handleFlutterCreateTrigger, up to the pending createFlutterProject
\* (line 179 has invoked _flutter.create).
HandleFlutterCreateTrigger(s, f) ==
    LET flutterTriggerFile == TriggerPath(f, FLUTTER_CREATE_PROJECT_TRIGGER_FILE)
    IN IF ~ExistsSync(s.files, flutterTriggerFile) THEN s
       ELSE LET sampleID == SampleIdOf(Trim(ReadFileSync(s.files, flutterTriggerFile)))
            IN [s EXCEPT
                  !.files = UnlinkSync(@, flutterTriggerFile),
                  !.commands = AddCommand(@, "_flutter.create",
                                          <<FsPath(f), FlutterProjectName(sampleID), sampleID>>),
                  !.tasks[<<f, FLUTTER_CREATE_PROJECT_TRIGGER_FILE>>] =
                      [NoTask EXCEPT !.pc = "creating", !.sampleID = sampleID],
                  !.handled = Append(@, Handled(f, FLUTTER_CREATE_PROJECT_TRIGGER_FILE, "create"))]

\* Variant of lines 133-135: the framework trigger handled first.
HandleFolderFlutterCreateFirst(s, f) ==
    HandleStagehandTrigger(
        HandleStagehandTrigger(
            HandleFlutterCreateTrigger(s, f),
            f, DART_STAGEHAND_PROJECT_TRIGGER_FILE),
        f, FLUTTER_STAGEHAND_PROJECT_TRIGGER_FILE)

\* Lines 133-135: the body of the forEach callback.  No handler is awaited: each
\* call returns at its first await and the next one starts.
HandleFolder(s, f) ==
    HandleFlutterCreateTrigger(
        HandleStagehandTrigger(
            HandleStagehandTrigger(s, f, DART_STAGEHAND_PROJECT_TRIGGER_FILE),
            f, FLUTTER_STAGEHAND_PROJECT_TRIGGER_FILE),
        f)

\* Line 132: getDartWorkspaceFolders().forEach(...), from folder f on.
RECURSIVE HandleFoldersFrom(_, _)
HandleFoldersFrom(s, f) ==
    IF f > Len(WorkspaceFolders) THEN s
    ELSE HandleFoldersFrom(HandleFolder(s, f), f + 1)

\* Lines 131-137
HandleNewProjects(s) == HandleFoldersFrom(s, 1)

\* Variant of lines 174, 180: any result code counts as success.
CreateSucceededWithAnyCode(code) == code \in Int

\* Lines 174, 180: return code === 0
CreateSucceeded(code) == code = 0

\* Lines 193-199: handleDartWelcome.  template.entrypoint.replace throws when the
\* descriptor has no entrypoint.
HandleDartWelcome(fs, f, template) ==
    LET workspacePath == FsPath(f)
        projectName == Basename(workspacePath)
    IN IF template.entrypoint = Undefined
       THEN [threw |-> TRUE, entryFile |-> Undefined, open |-> Undefined, info |-> Undefined]
       ELSE LET entryFile == PathJoin(workspacePath,
                                      ReplaceFirst(template.entrypoint[1], "__projectName__",
                                                   projectName))
            IN [threw |-> FALSE,
                entryFile |-> Some(entryFile),
                open |-> IF ExistsSync(fs, entryFile) THEN Some(entryFile) ELSE Undefined,
                info |-> Some((IF template.label = Undefined THEN "undefined"
                               ELSE template.label[1]) \o " project ready!")]

\* Variant of lines 183-191: nothing is shown when the entry file is missing.
HandleFlutterWelcomeQuietWithoutFile(fs, f, sampleID) ==
    LET entryFile == PathJoin(FsPath(f), <<"lib", "/", "main.dart">>)
    IN IF ~ExistsSync(fs, entryFile)
       THEN [threw |-> FALSE, entryFile |-> Some(entryFile), open |-> Undefined,
             info |-> Undefined]
       ELSE [threw |-> FALSE,
             entryFile |-> Some(entryFile),
             open |-> Some(entryFile),
             info |-> IF TruthyString(sampleID)
                      THEN Some(Text(sampleID[1])
                                \o " sample ready! Connect a device and press F5 to run.")
                      ELSE Some("Your Flutter project is ready! Connect a device and press F5 to start running.")]

\* Lines 183-191: handleFlutterWelcome
HandleFlutterWelcome(fs, f, sampleID) ==
    LET entryFile == PathJoin(FsPath(f), <<"lib", "/", "main.dart">>)
    IN [threw |-> FALSE,
        entryFile |-> Some(entryFile),
        open |-> IF ExistsSync(fs, entryFile) THEN Some(entryFile) ELSE Undefined,
        info |-> IF TruthyString(sampleID)
                 THEN Some(Text(sampleID[1])
                           \o " sample ready! Connect a device and press F5 to run.")
                 ELSE Some("Your Flutter project is ready! Connect a device and press F5 to start running.")]

\* The effects of a welcome step on the host.
AfterWelcome(cmds, welcome) ==
    IF welcome.open = Undefined THEN cmds ELSE AddCommand(cmds, "vscode.open", <<welcome.open[1]>>)

ShownAfterWelcome(msgs, welcome) ==
    IF welcome.info = Undefined THEN msgs ELSE AddMessage(msgs, "info", welcome.info[1])

\* The result codes of the create commands.
ResultCodes == {0, 1}

\* The entry file the scaffolding tool generates: every placeholder of the
\* entrypoint pattern stands for the project name.
RECURSIVE ReplaceAll(_, _, _)
ReplaceAll(s, pattern, replacement) ==
    IF s = <<>> THEN <<>>
    ELSE (IF Head(s) = pattern THEN replacement ELSE <<Head(s)>>)
         \o ReplaceAll(Tail(s), pattern, replacement)

GeneratedEntryFile(f, task) ==
    IF task.template.kind = "object" /\ task.template.entrypoint # Undefined
    THEN PathJoin(FsPath(f), ReplaceAll(task.template.entrypoint[1], "__projectName__",
                                         Basename(FsPath(f))))
    ELSE PathJoin(FsPath(f), <<"lib", "/", "main.dart">>)

\* The create command may or may not have written the entry file.
FilesAfterCreate(fs, f, task, code, written) ==
    IF code = 0 /\ written THEN WriteFile(fs, GeneratedEntryFile(f, task), <<>>) ELSE fs

\* Lines 151-153: _dart.create has returned; on success dart.getPackages is
\* invoked and awaited.
CreateDartProjectReturns(m) ==
    /\ m[2] \in StagehandTriggers
    /\ tasks[m].pc = "creating"
    /\ \E code \in ResultCodes, written \in BOOLEAN :
         /\ (code # 0 => ~written)
         /\ files' = FilesAfterCreate(files, m[1], tasks[m], code, written)
         /\ IF CreateSucceeded(code)
            THEN /\ commands' = AddCommand(commands, "dart.getPackages", <<FsPath(m[1])>>)
                 /\ tasks' = [tasks EXCEPT ![m].pc = "gettingPackages", ![m].code = Some(code)]
            ELSE /\ tasks' = [tasks EXCEPT ![m].pc = "done", ![m].code = Some(code)]
                 /\ UNCHANGED commands
    /\ UNCHANGED <<environment, contextState, promptCalls, browser,
                   unhandledRejections, devToolsVars, messages>>

\* Lines 153-154: dart.getPackages has returned; the welcome step runs.
GetPackagesReturns(m) ==
    /\ m[2] \in StagehandTriggers
    /\ tasks[m].pc = "gettingPackages"
    /\ LET welcome == HandleDartWelcome(files, m[1], tasks[m].template)
       IN /\ commands' = AfterWelcome(commands, welcome)
          /\ messages' = ShownAfterWelcome(messages, welcome)
          /\ tasks' = [tasks EXCEPT ![m].pc = IF welcome.threw THEN "threw" ELSE "done",
                                    ![m].entryFile = welcome.entryFile]
          /\ unhandledRejections' = unhandledRejections + (IF welcome.threw THEN 1 ELSE 0)
    /\ UNCHANGED <<environment, files, contextState, promptCalls,
                   browser, devToolsVars>>

\* Lines 165-168: _flutter.create has returned; on success the welcome step runs.
CreateFlutterProjectReturns(m) ==
    /\ m[2] = FLUTTER_CREATE_PROJECT_TRIGGER_FILE
    /\ tasks[m].pc = "creating"
    /\ \E code \in ResultCodes, written \in BOOLEAN :
         /\ (code # 0 => ~written)
         /\ files' = FilesAfterCreate(files, m[1], tasks[m], code, written)
         /\ IF CreateSucceeded(code)
            THEN LET welcome == HandleFlutterWelcome(files', m[1], tasks[m].sampleID)
                 IN /\ commands' = AfterWelcome(commands, welcome)
                    /\ messages' = ShownAfterWelcome(messages, welcome)
                    /\ tasks' = [tasks EXCEPT ![m].pc = "done", ![m].code = Some(code),
                                              ![m].entryFile = welcome.entryFile]
            ELSE /\ tasks' = [tasks EXCEPT ![m].pc = "done", ![m].code = Some(code)]
                 /\ UNCHANGED <<commands, messages>>
    /\ UNCHANGED <<environment, contextState, promptCalls, browser,
                   unhandledRejections, devToolsVars>>

\* ---------------------------------------------------------------------------
\* showUserPrompts (lines 49-73) and its prompts (lines 104-129).

\* Variant of lines 52-55: the key read without its prefix.
hasPromptedUnprefixed(key) ==
    key \in DOMAIN contextState /\ contextState[key] = Some(TRUE)

\* Lines 52-55
hasPrompted(key) == contextState[StateKey(key)] = Some(TRUE)

\* Variant of lines 68-72: neither `if` returns, so every eligible prompt is shown.
PromptsToShowEveryEligible(workspaceHasFlutter) ==
    (IF workspaceHasFlutter /\ ~hasFlutterExtension
        /\ contextState[StateKey(installFlutterExtensionPromptKey)] # Some(TRUE)
     THEN <<installFlutterExtensionPromptKey>> ELSE <<>>)
    \o (IF ~isDevExtension /\ contextState[StateKey(releaseNotesKeyForThisVersion)] # Some(TRUE)
        THEN <<releaseNotesKeyForThisVersion>> ELSE <<>>)

\* Lines 68-72: the prompts one call shows, in the order it shows them.  Each
\* `if` returns after showing its prompt.
PromptsToShow(workspaceHasFlutter) ==
    IF workspaceHasFlutter /\ ~hasFlutterExtension
       /\ ~hasPrompted(installFlutterExtensionPromptKey)
    THEN <<installFlutterExtensionPromptKey>>
    ELSE IF ~isDevExtension /\ ~hasPrompted(releaseNotesKeyForThisVersion)
    THEN <<releaseNotesKeyForThisVersion>>
    ELSE <<>>

\* What the user can do with a one-button notification: press the button or
\* close it (the promise resolves to undefined).
PromptButton(key) ==
    IF key = installFlutterExtensionPromptKey THEN "Show Me" ELSE "Show Release Notes"

PromptResponses(key) == {Some(<<PromptButton(key)>>), Undefined}

\* Variant of lines 104-114: the prompt reports whether its button was clicked.
PromptToInstallFlutterExtensionSeenOnClick(res) ==
    [browse |-> IF TruthyString(res)
                THEN Some("https://marketplace.visualstudio.com/items?itemName=Dart-Code.flutter")
                ELSE Undefined,
     result |-> TruthyString(res)]

\* Lines 104-114: promptToInstallFlutterExtension, after its await.
PromptToInstallFlutterExtension(res) ==
    [browse |-> IF TruthyString(res)
                THEN Some("https://marketplace.visualstudio.com/items?itemName=Dart-Code.flutter")
                ELSE Undefined,
     result |-> TRUE]

\* Lines 116-125: promptToShowReleaseNotes, after its await.
PromptToShowReleaseNotes(res) ==
    [browse |-> IF TruthyString(res)
                THEN Some("https://dartcode.org/releases/v" \o Text(versionLink) \o "/")
                ELSE Undefined,
     result |-> TRUE]

\* Lines 69, 72: the prompt function showPrompt is given for a key.
RunPrompt(key, res) ==
    IF key = installFlutterExtensionPromptKey
    THEN PromptToInstallFlutterExtension(res)
    ELSE PromptToShowReleaseNotes(res)

\* Line 62, first handler: (res) => context.update(stateKey, res)
OnPromptFulfilled(store, key, res) == [store EXCEPT ![StateKey(key)] = Some(res)]

\* Variant of line 62: a rejected prompt stored as "not seen".
OnPromptRejectedStoresFalse(store, key, err) ==
    [store |-> [store EXCEPT ![StateKey(key)] = Some(FALSE)],
     message |-> Some(err.message), handled |-> TRUE]

\* Line 62, second handler, and lines 127-129: error(err) shows err.message
\* and writes nothing.
OnPromptRejected(store, key, err) ==
    [store |-> store, message |-> Some(err.message), handled |-> TRUE]

\* The errors the host message API can reject with.
HostErrors == {[message |-> "Notification service is unavailable"]}

IdlePromptCall ==
    [pc |-> "idle", handled |-> <<>>, shown |-> <<>>,
     prompts |-> [k \in PromptKeys |-> "none"]]

\* Lines 49-73: one call of showUserPrompts.  It runs handleNewProjects, shows
\* the prompts it selects and returns; the trigger handlers and the prompts it
\* started stay pending.
ShowUserPrompts(c) ==
    /\ promptCalls[c].pc = "idle"
    /\ \A d \in 1..(c - 1) : promptCalls[d].pc # "idle"
    /\ LET s == HandleNewProjects([files |-> files, tasks |-> tasks, commands |-> commands,
                                   messages |-> messages, handled |-> <<>>,
                                   unhandled |-> unhandledRejections])
           shown == PromptsToShow(hasAnyFlutterProjects)
       IN /\ files' = s.files
          /\ tasks' = s.tasks
          /\ commands' = s.commands
          /\ messages' = s.messages
          /\ unhandledRejections' = s.unhandled
          /\ promptCalls' = [promptCalls EXCEPT ![c] =
                [pc |-> "returned",
                 handled |-> s.handled,
                 shown |-> shown,
                 prompts |-> [k \in PromptKeys |->
                                IF \E i \in 1..Len(shown) : shown[i] = k
                                THEN "awaiting" ELSE "none"]]]
    /\ UNCHANGED <<environment, contextState, browser, devToolsVars>>

\* Line 62: the prompt's promise is fulfilled; its result is stored.
PromptResolves(c, key) ==
    /\ promptCalls[c].prompts[key] = "awaiting"
    /\ \E res \in PromptResponses(key) :
         LET outcome == RunPrompt(key, res)
         IN /\ browser' = (IF outcome.browse = Undefined THEN browser
                           ELSE browser \cup {outcome.browse[1]})
            /\ contextState' = OnPromptFulfilled(contextState, key, outcome.result)
    /\ promptCalls' = [promptCalls EXCEPT ![c].prompts[key] = "stored"]
    /\ UNCHANGED <<environment, files, tasks, unhandledRejections,
                   devToolsVars, commands, messages>>

\* Line 62: the prompt's promise is rejected; error(err) runs.
PromptFails(c, key) ==
    /\ promptCalls[c].prompts[key] = "awaiting"
    /\ \E err \in HostErrors :
         LET outcome == OnPromptRejected(contextState, key, err)
         IN /\ contextState' = outcome.store
            /\ messages' = (IF outcome.message = Undefined THEN messages
                            ELSE AddMessage(messages, "error", outcome.message[1]))
            /\ unhandledRejections' = unhandledRejections + (IF outcome.handled THEN 0 ELSE 1)
    /\ promptCalls' = [promptCalls EXCEPT ![c].prompts[key] = "failed"]
    /\ UNCHANGED <<environment, files, tasks, browser,
                   devToolsVars, commands>>

\* ---------------------------------------------------------------------------
\* Initial states and specifications.

\* The stored flags and the pending work of a fresh installation.
PromptsFresh ==
    /\ contextState = [k \in {StateKey(key) : key \in PromptKeys} |-> Undefined]
    /\ promptCalls = [c \in 1..MaxCalls |-> IdlePromptCall]
    /\ tasks = [m \in Markers |-> NoTask]
    /\ browser = {}
    /\ unhandledRejections = 0

\* Any build, any workspace.
AnyEnvironment ==
    /\ hasAnyFlutterProjects \in BOOLEAN
    /\ hasFlutterExtension \in BOOLEAN
    /\ isDevExtension \in BOOLEAN

\* A development build in a workspace without Flutter projects: no prompt is
\* eligible.
QuietEnvironment ==
    /\ hasAnyFlutterProjects = FALSE
    /\ hasFlutterExtension = FALSE
    /\ isDevExtension = TRUE

NoMarkers == files = <<>>

\* At most MaxMarkers trigger files are waiting in the workspace folders.
SomeMarkers ==
    \E present \in SUBSET Markers :
      /\ Cardinality(present) <= MaxMarkers
      /\ \E content \in [present -> StagehandContents \cup FlutterCreateContents] :
           /\ \A m \in present : content[m] \in MarkerContents(m)
           /\ files = [p \in {TriggerPath(m[1], m[2]) : m \in present} |->
                         LET m == CHOOSE n \in present : TriggerPath(n[1], n[2]) = p
                         IN content[m]]

PromptsIdle == QuietEnvironment /\ NoMarkers /\ PromptsFresh

DevToolsIdle ==
    /\ now = 1
    /\ devToolsNotificationsShown = 0
    /\ devToolsNotificationLastShown = Undefined
    /\ devToolsNotificationDoNotShow = FALSE
    /\ devCalls = [c \in 1..MaxDevCalls |-> IdleDevCall]


DevToolsInit ==
    /\ commands = EmptyBag
    /\ messages = EmptyBag
    /\ now = 1
    /\ devToolsNotificationsShown \in 0..10
    /\ devToolsNotificationLastShown =
           (IF devToolsNotificationsShown = 0 THEN Undefined ELSE Some(1))
    /\ devToolsNotificationDoNotShow \in BOOLEAN
    /\ devCalls = [c \in 1..MaxDevCalls |-> IdleDevCall]

InitDevTools == DevToolsInit /\ PromptsIdle

DevToolsNext ==
    \/ \E c \in 1..MaxDevCalls : DevToolsCall(c)
    \/ \E c \in 1..MaxDevCalls : DevToolsChoice(c)
    \/ \E c \in 1..MaxDevCalls : DevToolsMessageFails(c)
    \/ Tick

SpecDevTools == InitDevTools /\ [][DevToolsNext]_vars

NoOutput == commands = EmptyBag /\ messages = EmptyBag

\* showUserPrompts in a workspace without trigger files: the prompts alone.
InitPrompts == AnyEnvironment /\ NoMarkers /\ PromptsFresh /\ DevToolsIdle /\ NoOutput

PromptsNext ==
    \/ \E c \in 1..MaxCalls : ShowUserPrompts(c)
    \/ \E c \in 1..MaxCalls, key \in PromptKeys : PromptResolves(c, key)
    \/ \E c \in 1..MaxCalls, key \in PromptKeys : PromptFails(c, key)

SpecPrompts == InitPrompts /\ [][PromptsNext]_vars

\* showUserPrompts where no prompt is eligible: the trigger files alone.
InitTriggers == QuietEnvironment /\ SomeMarkers /\ PromptsFresh /\ DevToolsIdle /\ NoOutput

TriggersNext ==
    \/ \E c \in 1..MaxCalls : ShowUserPrompts(c)
    \/ \E m \in Markers : CreateDartProjectReturns(m)
    \/ \E m \in Markers : GetPackagesReturns(m)
    \/ \E m \in Markers : CreateFlutterProjectReturns(m)

SpecTriggers == InitTriggers /\ [][TriggersNext]_vars

\* The whole program.
Init == AnyEnvironment /\ SomeMarkers /\ PromptsFresh /\ DevToolsInit

Next == PromptsNext \/ TriggersNext \/ DevToolsNext

Spec == Init /\ [][Next]_vars

\* ---------------------------------------------------------------------------
\* Properties of showUserPrompts (checked under SpecPrompts).

InstallStateKey == StateKey(installFlutterExtensionPromptKey)
ReleaseNotesStateKey == StateKey(releaseNotesKeyForThisVersion)

\* This step is call c of showUserPrompts.
UserPromptsCalled(c) == promptCalls[c].pc = "idle" /\ promptCalls'[c].pc = "returned"

\* This step is the rejection of the prompt `key` shown by call c.
PromptRejected(c, key) ==
    promptCalls[c].prompts[key] = "awaiting" /\ promptCalls'[c].prompts[key] = "failed"

ErrorsShown(text) == CopiesIn(Message("error", text), messages)

\* C1: one call of showUserPrompts displays at most one prompt, the first
\* eligible one: the install prompt when the workspace has Flutter projects, the
\* Flutter extension is absent and its key is not marked seen; otherwise the
\* release-notes prompt when the build is not a development build and the
\* per-version key is not marked seen; otherwise none.  The call never has more
\* than one prompt displayed, whatever becomes of the first.
C1_FirstEligiblePromptOnly ==
    /\ [](\A c \in 1..MaxCalls :
            Cardinality({k \in PromptKeys : promptCalls[c].prompts[k] # "none"}) <= 1)
    /\ [][\A c \in 1..MaxCalls : UserPromptsCalled(c) =>
            LET installEligible == /\ hasAnyFlutterProjects
                                   /\ ~hasFlutterExtension
                                   /\ contextState[InstallStateKey] # Some(TRUE)
                notesEligible == /\ ~isDevExtension
                                 /\ contextState[ReleaseNotesStateKey] # Some(TRUE)
                shown == promptCalls'[c].shown
            IN /\ Len(shown) <= 1
               /\ installEligible => shown = <<installFlutterExtensionPromptKey>>
               /\ (~installEligible /\ notesEligible) => shown = <<releaseNotesKeyForThisVersion>>
               /\ (~installEligible /\ ~notesEligible) => shown = <<>>
               /\ \A k \in PromptKeys :
                    promptCalls'[c].prompts[k] = "awaiting" <=> (shown = <<k>>)]_vars

\* A call showed the install prompt while the release-notes prompt was eligible
\* too; the install prompt failed and the release-notes prompt was not shown.
C1_Witness ==
    \E c \in 1..MaxCalls :
        /\ promptCalls[c].shown = <<installFlutterExtensionPromptKey>>
        /\ promptCalls[c].prompts[installFlutterExtensionPromptKey] = "failed"
        /\ promptCalls[c].prompts[releaseNotesKeyForThisVersion] = "none"
        /\ ~isDevExtension
        /\ contextState[ReleaseNotesStateKey] = Undefined

\* C2: once hasPrompted.<id> is stored as true it stays true, and no call of
\* showUserPrompts made with it stored displays that prompt.
C2_SeenPromptNeverShownAgain ==
    [][\A key \in PromptKeys : contextState[StateKey(key)] = Some(TRUE) =>
          /\ contextState'[StateKey(key)] = Some(TRUE)
          /\ \A c \in 1..MaxCalls : UserPromptsCalled(c) =>
                /\ promptCalls'[c].prompts[key] = "none"
                /\ \A i \in 1..Len(promptCalls'[c].shown) : promptCalls'[c].shown[i] # key]_vars

\* The install prompt was stored as seen by the first call, and a later call in
\* the same workspace showed the release notes instead.
C2_Witness ==
    /\ hasAnyFlutterProjects /\ ~hasFlutterExtension
    /\ promptCalls[1].prompts[installFlutterExtensionPromptKey] = "stored"
    /\ contextState[InstallStateKey] = Some(TRUE)
    /\ \E c \in 2..MaxCalls : promptCalls[c].shown = <<releaseNotesKeyForThisVersion>>

\* C3: when a prompt shown by showUserPrompts is rejected, the error is shown
\* as an error message, no rejection is left unhandled, and the stored
\* hasPrompted values are not written; a value is stored only by a prompt that
\* resolved.
C3_RejectedPromptLeavesStateAlone ==
    /\ [](\A key \in PromptKeys : contextState[StateKey(key)] # Undefined =>
            \E c \in 1..MaxCalls : promptCalls[c].prompts[key] = "stored")
    /\ [][\A c \in 1..MaxCalls, key \in PromptKeys : PromptRejected(c, key) =>
            /\ contextState' = contextState
            /\ unhandledRejections' = unhandledRejections
            /\ \E err \in HostErrors :
                 ErrorsShown(err.message)' = ErrorsShown(err.message) + 1]_vars

\* The first call's prompt was rejected and reported, nothing is stored, and
\* the next call offers the same prompt again.
C3_Witness ==
    \E key \in PromptKeys :
        /\ promptCalls[1].prompts[key] = "failed"
        /\ contextState[StateKey(key)] = Undefined
        /\ promptCalls[2].prompts[key] = "awaiting"
        /\ \E err \in HostErrors : ErrorsShown(err.message) >= 1

\* ---------------------------------------------------------------------------
\* Properties of showDevToolsNotificationIfAppropriate (checked under
\* SpecDevTools).

\* This step is the synchronous part of call c.
DevToolsCalled(c) == devCalls[c].pc = "idle" /\ devCalls'[c].pc # "idle"

\* This step is the user's choice in call c.
DevToolsChosen(c) == devCalls[c].pc = "awaiting" /\ devCalls'[c].pc = "returned"

\* This step is the failure of the host message API in call c.
DevToolsFailed(c) == devCalls[c].pc = "awaiting" /\ devCalls'[c].failed

AnyErrorShown == \E msg \in BagToSet(messages) : msg.severity = "error"

DevToolsOpened == CopiesIn(Command("dart.openDevTools", <<>>), commands)

\* C4, as stated: when the host message API fails while the notification is
\* displayed, the call does not reject, an error message is shown and the
\* three throttle fields are what they were before the call.
C4_FailureRecoveredStateUntouched ==
    \A c \in 1..MaxDevCalls : devCalls[c].failed =>
        /\ devCalls[c].pc = "returned"
        /\ AnyErrorShown
        /\ devToolsNotificationsShown = devCalls[c].timesShown
        /\ devToolsNotificationLastShown = devCalls[c].lastShown
        /\ devToolsNotificationDoNotShow = devCalls[c].doNotShow

\* C4, amended: when the host message API fails while the notification is
\* displayed, the call rejects to its caller and returns nothing; the failure
\* itself shows no message, runs no command and writes none of the three
\* throttle fields, but the shown-count was already increased and the
\* last-shown timestamp already set when the notification was displayed.
C4_FailureRejectsAfterCounting ==
    /\ [](\A c \in 1..MaxDevCalls : devCalls[c].failed =>
            /\ devCalls[c].pc = "rejected"
            /\ devCalls[c].result = Undefined
            /\ devCalls[c].displayed
            /\ devToolsNotificationsShown >= devCalls[c].timesShown + 1
            /\ devToolsNotificationLastShown # Undefined
            /\ devToolsNotificationLastShown[1] >= devCalls[c].at)
    /\ [][\A c \in 1..MaxDevCalls : DevToolsFailed(c) =>
            /\ messages' = messages
            /\ commands' = commands
            /\ devToolsNotificationsShown' = devToolsNotificationsShown
            /\ devToolsNotificationLastShown' = devToolsNotificationLastShown
            /\ devToolsNotificationDoNotShow' = devToolsNotificationDoNotShow]_vars

\* A call failed on a first display: the count went from 0 to 1.
C4_Witness ==
    \E c \in 1..MaxDevCalls :
        /\ devCalls[c].failed
        /\ devCalls[c].timesShown = 0
        /\ devToolsNotificationsShown = 1

\* C5: the shown-count never exceeds 10, and a call made with a shown-count of
\* 10 or more displays nothing, returns false and leaves the count alone,
\* whatever the time since the last display.
C5_CountNeverAboveTen ==
    /\ [](devToolsNotificationsShown <= 10)
    /\ [][\A c \in 1..MaxDevCalls :
            (DevToolsCalled(c) /\ devToolsNotificationsShown >= 10) =>
                /\ ~devCalls'[c].displayed
                /\ devCalls'[c].result = Some(FALSE)
                /\ devToolsNotificationsShown' = devToolsNotificationsShown]_vars

\* A call was skipped for the count alone: no opt-out, and the last display
\* was at least 20 hours before the call.
C5_Witness ==
    \E c \in 1..MaxDevCalls :
        /\ devCalls[c].pc = "returned"
        /\ ~devCalls[c].displayed
        /\ devCalls[c].timesShown = 10
        /\ ~devCalls[c].doNotShow
        /\ devCalls[c].lastShown # Undefined
        /\ devCalls[c].at - devCalls[c].lastShown[1] >= 20

\* C6: a call made less than 20 hours after the recorded last display shows
\* nothing; a call made with no recorded display, or at least 20 hours after
\* it, with a count below 10 and no opt-out, displays the notification, adds
\* exactly one to the count and sets the timestamp to the current time.
C6_TwentyHourThreshold ==
    [][\A c \in 1..MaxDevCalls : DevToolsCalled(c) =>
          LET recorded == devToolsNotificationLastShown # Undefined
              elapsed == now - devToolsNotificationLastShown[1]
          IN /\ (recorded /\ elapsed < 20) =>
                   /\ ~devCalls'[c].displayed
                   /\ devToolsNotificationsShown' = devToolsNotificationsShown
                   /\ devToolsNotificationLastShown' = devToolsNotificationLastShown
             /\ ((~recorded \/ elapsed >= 20)
                 /\ devToolsNotificationsShown < 10
                 /\ ~devToolsNotificationDoNotShow) =>
                   /\ devCalls'[c].displayed
                   /\ devCalls'[c].pc = "awaiting"
                   /\ devToolsNotificationsShown' = devToolsNotificationsShown + 1
                   /\ devToolsNotificationLastShown' = Some(now)]_vars

\* One call was skipped 19 hours after the last display and another displayed
\* the notification exactly 20 hours after it.
C6_Witness ==
    \E c, d \in 1..MaxDevCalls :
        /\ devCalls[c].pc = "returned" /\ ~devCalls[c].displayed
        /\ devCalls[c].timesShown < 10 /\ ~devCalls[c].doNotShow
        /\ devCalls[c].lastShown # Undefined
        /\ devCalls[c].at - devCalls[c].lastShown[1] = 19
        /\ devCalls[d].displayed
        /\ devCalls[d].lastShown # Undefined
        /\ devCalls[d].at - devCalls[d].lastShown[1] = 20
        /\ devToolsNotificationsShown = devCalls[d].timesShown + 1
        /\ devToolsNotificationLastShown = Some(devCalls[d].at)

\* C7: the permanent decline sets the opt-out flag and returns false; the flag
\* is never cleared; a call made with the flag set displays nothing and returns
\* false; the shown-count never decreases.
C7_OptOutIsPermanent ==
    [][/\ devToolsNotificationDoNotShow => devToolsNotificationDoNotShow'
       /\ devToolsNotificationsShown' >= devToolsNotificationsShown
       /\ \A c \in 1..MaxDevCalls :
            /\ (DevToolsChosen(c) /\ devCalls'[c].choice = Some(doNotAskAgainAction)) =>
                  /\ devToolsNotificationDoNotShow'
                  /\ devCalls'[c].result = Some(FALSE)
            /\ (DevToolsCalled(c) /\ devToolsNotificationDoNotShow) =>
                  /\ ~devCalls'[c].displayed
                  /\ devCalls'[c].result = Some(FALSE)]_vars

\* The user declined for good in one call; a later call, with a count below 10
\* and 20 hours or more after the last display, displayed nothing.
C7_Witness ==
    \E c, d \in 1..MaxDevCalls :
        /\ devCalls[d].choice = Some(doNotAskAgainAction)
        /\ devCalls[c].pc = "returned" /\ ~devCalls[c].displayed
        /\ devCalls[c].doNotShow
        /\ devCalls[c].timesShown < 10
        /\ devCalls[c].lastShown # Undefined
        /\ devCalls[c].at - devCalls[c].lastShown[1] >= 20

\* C8: a call returns true exactly when it displayed the notification and the
\* user chose to open DevTools, and dart.openDevTools has been executed once
\* for each such call and never otherwise.
C8_TrueIffOpened ==
    /\ \A c \in 1..MaxDevCalls : devCalls[c].pc = "returned" =>
          /\ devCalls[c].result \in {Some(TRUE), Some(FALSE)}
          /\ devCalls[c].result = Some(TRUE) <=>
                (devCalls[c].displayed /\ devCalls[c].choice = Some(openDevToolsAction))
    /\ DevToolsOpened =
          Cardinality({c \in 1..MaxDevCalls :
                         devCalls[c].pc = "returned" /\ devCalls[c].result = Some(TRUE)})

\* One call opened DevTools and returned true; another was displayed and
\* dismissed and returned false.
C8_Witness ==
    \E c, d \in 1..MaxDevCalls :
        /\ devCalls[c].result = Some(TRUE)
        /\ devCalls[d].pc = "returned" /\ devCalls[d].displayed
        /\ devCalls[d].choice = Undefined /\ devCalls[d].result = Some(FALSE)
        /\ DevToolsOpened = 1

\* ---------------------------------------------------------------------------
\* Properties of the trigger-file handling (checked under SpecTriggers).

StagehandMarkers == {m \in Markers : m[2] \in StagehandTriggers}

MarkerPresent(m) == ExistsSync(files, TriggerPath(m[1], m[2]))

\* The marker file of m exists and does not hold valid JSON.
MarkerMalformed(m) ==
    /\ m \in StagehandMarkers
    /\ MarkerPresent(m)
    /\ ~JsonParse(files[TriggerPath(m[1], m[2])]).ok

\* The handler of m is waiting for a command it started.
TaskPending(m) == tasks[m].pc \in {"creating", "gettingPackages"}

\* The position of a marker in the order of lines 132-135.
TriggerIndex(triggerFilename) ==
    CHOOSE i \in 1..Len(TriggerFiles) : TriggerFiles[i] = triggerFilename

MarkerRank(f, triggerFilename) == (f - 1) * Len(TriggerFiles) + TriggerIndex(triggerFilename)

\* How often a command of that name has been executed for folder f.
CommandsFor(name, f) ==
    LET matching == {cmd \in BagToSet(commands) :
                        cmd.name = name /\ Len(cmd.args) >= 1 /\ cmd.args[1] = FsPath(f)}
        RECURSIVE Sum(_)
        Sum(S) == IF S = {} THEN 0
                  ELSE LET cmd == CHOOSE x \in S : TRUE
                       IN CopiesIn(cmd, commands) + Sum(S \ {cmd})
    IN Sum(matching)

ReturnedCalls == {c \in 1..MaxCalls : promptCalls[c].pc = "returned"}

\* C9, as stated: no two markers are being handled at the same time.
C9_OneMarkerAtATime ==
    Cardinality({m \in Markers : TaskPending(m)}) <= 1

\* C9, amended: a call handles the markers that are present one after the
\* other up to the first await of each handler (existence check, read, parse,
\* delete, invocation of the create command), the three markers of a folder in
\* their fixed order and the folders in the order of discovery; what a handler
\* does after its await (package resolution, welcome step) is not waited for,
\* so several markers can be pending at once.
C9_SynchronousPartsInOrder ==
    [][\A c \in 1..MaxCalls : UserPromptsCalled(c) =>
          LET handled == promptCalls'[c].handled
          IN /\ \A i, j \in 1..Len(handled) : i < j =>
                   MarkerRank(handled[i].folder, handled[i].trigger)
                       < MarkerRank(handled[j].folder, handled[j].trigger)
             /\ {<<handled[i].folder, handled[i].trigger>> : i \in 1..Len(handled)}
                    = {m \in Markers : MarkerPresent(m)}
             /\ \A i \in 1..Len(handled) : handled[i].outcome = "create" =>
                   /\ tasks[<<handled[i].folder, handled[i].trigger>>].pc = "none"
                   /\ tasks'[<<handled[i].folder, handled[i].trigger>>].pc = "creating"]_vars

\* One call started two handlers and both are pending.
C9_Witness ==
    \E c \in 1..MaxCalls, m1, m2 \in Markers :
        /\ m1 # m2
        /\ TaskPending(m1) /\ TaskPending(m2)
        /\ Len(promptCalls[c].handled) = 2
        /\ \A i \in 1..2 : promptCalls[c].handled[i].outcome = "create"

\* C10: a scaffolding marker that does not hold valid JSON stays in place with
\* its content, every call that meets it shows the error message, and no
\* create command, package resolution or welcome step is started for it:
\* _dart.create has been executed for a folder once per scaffolding marker of
\* that folder that parsed, and never for a malformed one.
C10_MalformedMarkerKept ==
    /\ [](\A m \in StagehandMarkers : MarkerMalformed(m) => tasks[m].pc = "none")
    /\ [](ErrorsShown("Failed to run Stagehand to create project")
            = Cardinality(ReturnedCalls) * Cardinality({m \in Markers : MarkerMalformed(m)}))
    /\ [](\A f \in FolderIds :
            /\ CommandsFor("_dart.create", f)
                 = Cardinality({m \in StagehandMarkers :
                                  m[1] = f /\ tasks[m].template.kind = "object"})
            /\ CommandsFor("dart.getPackages", f) <= CommandsFor("_dart.create", f))
    /\ [][\A m \in StagehandMarkers : MarkerMalformed(m) =>
            /\ MarkerMalformed(m)'
            /\ files'[TriggerPath(m[1], m[2])] = files[TriggerPath(m[1], m[2])]]_vars

\* Two calls met a malformed marker: it is still there, the error was shown
\* twice, and the only create command run in its folder belongs to the other
\* scaffolding marker, whose handling is finished.
C10_Witness ==
    \E m, n \in StagehandMarkers :
        /\ MarkerMalformed(m)
        /\ Cardinality(ReturnedCalls) = 2
        /\ ErrorsShown("Failed to run Stagehand to create project") = 2
        /\ n[1] = m[1] /\ tasks[n].pc = "done" /\ tasks[n].code = Some(0)
        /\ CommandsFor("_dart.create", m[1]) = 1
        /\ CommandsFor("dart.getPackages", m[1]) = 1

\* ---------------------------------------------------------------------------
\* Claims about the handling of one marker (lines 139-200).

\* The marker file of m exists and a create command is started for it: a
\* scaffolding marker holds a descriptor, a framework marker holds anything.
WellFormedMarker(m) ==
    /\ MarkerPresent(m)
    /\ m \in StagehandMarkers =>
          LET parsed == JsonParse(Trim(files[TriggerPath(m[1], m[2])]))
          IN parsed.ok /\ parsed.value.kind = "object"

CreateCommandOf(m) == IF m \in StagehandMarkers THEN "_dart.create" ELSE "_flutter.create"

CreateCommands == {"_dart.create", "_flutter.create"}

\* C11: each call of showUserPrompts invokes the create command once for every
\* well-formed marker that is present and deletes that marker; no other step
\* invokes a create command and a marker that is absent stays absent, so a
\* marker is turned into exactly one create call however many calls follow,
\* and a folder/kind without a marker gets none.
C11_CreateOncePerMarker ==
    /\ [][\A c \in 1..MaxCalls : UserPromptsCalled(c) =>
            /\ \A f \in FolderIds, name \in CreateCommands :
                  CommandsFor(name, f)' =
                      CommandsFor(name, f)
                      + Cardinality({m \in Markers : /\ m[1] = f
                                                     /\ CreateCommandOf(m) = name
                                                     /\ WellFormedMarker(m)})
            /\ \A m \in Markers : WellFormedMarker(m) => ~MarkerPresent(m)']_vars
    /\ [][(\A c \in 1..MaxCalls : ~UserPromptsCalled(c)) =>
            \A f \in FolderIds, name \in CreateCommands :
                CommandsFor(name, f)' = CommandsFor(name, f)]_vars
    /\ [][\A m \in Markers : ~MarkerPresent(m) => ~MarkerPresent(m)']_vars

\* A second call has returned while the create command of the first is still
\* pending, and that command has been invoked once.
C11_Witness ==
    /\ Cardinality(ReturnedCalls) >= 2
    /\ \E m \in Markers :
          /\ tasks[m].pc = "creating"
          /\ CommandsFor(CreateCommandOf(m), m[1]) = 1

\* The scaffolding handler of m has run to its end after a successful create.
DartWelcomeDone(m) ==
    /\ m \in StagehandMarkers
    /\ tasks[m].pc = "done"
    /\ tasks[m].code = Some(0)

InfosShown(text) == CopiesIn(Message("info", text), messages)

\* C12, as stated: after a scaffolding marker with a descriptor and a create
\* that returned 0, the entry file considered is the folder joined with the
\* entrypoint in which the placeholder __projectName__ stands replaced by the
\* folder's base name, the message names the descriptor's label and the marker
\* is gone.
C12_PlaceholderReplaced ==
    \A m \in StagehandMarkers : DartWelcomeDone(m) =>
        LET workspacePath == FsPath(m[1])
            template == tasks[m].template
        IN /\ tasks[m].entryFile =
                  Some(PathJoin(workspacePath,
                                ReplaceAll(template.entrypoint[1], "__projectName__",
                                           Basename(workspacePath))))
           /\ InfosShown(template.label[1] \o " project ready!") >= 1
           /\ ~MarkerPresent(m)

FlutterMarkers == {m \in Markers : m[2] = FLUTTER_CREATE_PROJECT_TRIGGER_FILE}

\* This step is the return of the create command of m with result code 0.
FlutterCreateSucceeds(m) ==
    /\ m \in FlutterMarkers
    /\ tasks[m].pc = "creating"
    /\ tasks'[m].pc = "done"
    /\ tasks'[m].code = Some(0)

GenericReadyMessage ==
    "Your Flutter project is ready! Connect a device and press F5 to start running."

SampleReadyMessage(sampleID) ==
    Text(sampleID) \o " sample ready! Connect a device and press F5 to run."

\* C13: a framework trigger file whose trimmed content is empty makes the call
\* invoke _flutter.create with the folder, an absent project name and an
\* absent sample identifier, and a success then shows the generic message;
\* a trigger file with other content makes it invoke _flutter.create with the
\* folder, the name "sample" and the trimmed content, and a success then
\* shows the message that names the identifier.
C13_BlankTriggerMeansNoSample ==
    /\ [][\A c \in 1..MaxCalls : UserPromptsCalled(c) =>
            \A m \in FlutterMarkers : MarkerPresent(m) =>
                LET content == Trim(files[TriggerPath(m[1], m[2])])
                    expected ==
                        IF content = <<>>
                        THEN Command("_flutter.create", <<FsPath(m[1]), Undefined, Undefined>>)
                        ELSE Command("_flutter.create",
                                     <<FsPath(m[1]), Some("sample"), Some(content)>>)
                IN /\ CopiesIn(expected, commands') = CopiesIn(expected, commands) + 1
                   /\ CommandsFor("_flutter.create", m[1])'
                        = CommandsFor("_flutter.create", m[1]) + 1
                   /\ tasks'[m].sampleID
                        = IF content = <<>> THEN Undefined ELSE Some(content)]_vars
    /\ [][\A m \in FlutterMarkers : FlutterCreateSucceeds(m) =>
            LET expected == IF tasks[m].sampleID = Undefined
                            THEN GenericReadyMessage
                            ELSE SampleReadyMessage(tasks[m].sampleID[1])
            IN /\ InfosShown(expected)' = InfosShown(expected) + 1
               /\ BagCardinality(messages') = BagCardinality(messages) + 1]_vars

\* One folder's trigger file was blank and another's named a sample; both
\* creates succeeded and each showed its message.
C13_Witness ==
    \E m1, m2 \in FlutterMarkers :
        /\ tasks[m1].pc = "done" /\ tasks[m1].code = Some(0)
        /\ tasks[m1].sampleID = Undefined
        /\ CopiesIn(Command("_flutter.create", <<FsPath(m1[1]), Undefined, Undefined>>),
                    commands) = 1
        /\ InfosShown(GenericReadyMessage) = 1
        /\ tasks[m2].pc = "done" /\ tasks[m2].code = Some(0)
        /\ tasks[m2].sampleID = Some(<<"material.AppBar.1">>)
        /\ CopiesIn(Command("_flutter.create",
                            <<FsPath(m2[1]), Some("sample"), Some(<<"material.AppBar.1">>)>>),
                    commands) = 1
        /\ InfosShown(SampleReadyMessage(<<"material.AppBar.1">>)) = 1

\* The create command of m has been invoked.
CreateInvoked(m) == tasks[m].pc \in {"creating", "gettingPackages", "done"}

\* C14: in every reachable state, every create command that has been invoked
\* for a folder belongs to a marker of that folder and kind whose file no
\* longer exists, while the command is pending and after it has returned
\* with any result code.
C14_MarkerDeletedBeforeCreate ==
    /\ \A m \in Markers : CreateInvoked(m) => ~MarkerPresent(m)
    /\ \A f \in FolderIds, name \in CreateCommands :
          CommandsFor(name, f) =
              Cardinality({m \in Markers : /\ m[1] = f
                                             /\ CreateCommandOf(m) = name
                                             /\ CreateInvoked(m)
                                             /\ ~MarkerPresent(m)})

\* One create command is pending and another has failed; both markers are gone.
C14_Witness ==
    \E m1, m2 \in Markers :
        /\ tasks[m1].pc = "creating" /\ ~MarkerPresent(m1)
        /\ tasks[m2].pc = "done" /\ tasks[m2].code = Some(1) /\ ~MarkerPresent(m2)
        /\ CreateCommandOf(m1) # CreateCommandOf(m2)

InfoMessages ==
    [x \in {y \in BagToSet(messages) : y.severity = "info"} |-> messages[x]]

ErrorMessages ==
    [x \in {y \in BagToSet(messages) : y.severity = "error"} |-> messages[x]]

FileOpens ==
    [x \in {y \in BagToSet(commands) : y.name = "vscode.open"} |-> commands[x]]

\* This step is the return of dart.getPackages for m, after which the welcome
\* step has run.
DartWelcomeRuns(m) ==
    /\ m \in StagehandMarkers
    /\ tasks[m].pc = "gettingPackages"
    /\ tasks[m].code = Some(0)
    /\ tasks'[m].pc \in {"done", "threw"}

\* This step is the return of the create command of m with a non-zero code.
CreateFails(m) ==
    /\ tasks[m].pc = "creating"
    /\ tasks'[m].code \notin {Undefined, Some(0)}

\* C15: dart.getPackages has been invoked for a folder once per scaffolding
\* marker of that folder whose create returned 0, and never otherwise; an
\* informational message or a file-open appears only in the step in which
\* dart.getPackages returns for a marker whose create returned 0, or in which
\* _flutter.create returns 0; a create that returns a non-zero code ends the
\* handler without any command or message.
C15_WelcomeOnlyAfterSuccess ==
    /\ [](\A f \in FolderIds :
            CommandsFor("dart.getPackages", f) =
                Cardinality({m \in StagehandMarkers : m[1] = f /\ tasks[m].code = Some(0)}))
    /\ [](\A m \in Markers :
            tasks[m].code \notin {Undefined, Some(0)} => tasks[m].pc = "done")
    /\ [][(\/ BagCardinality(InfoMessages') > BagCardinality(InfoMessages)
           \/ BagCardinality(FileOpens') > BagCardinality(FileOpens))
          => \E m \in Markers : DartWelcomeRuns(m) \/ FlutterCreateSucceeds(m)]_vars
    /\ [][\A m \in Markers : CreateFails(m) =>
            /\ commands' = commands
            /\ messages' = messages
            /\ tasks'[m].pc = "done"]_vars

\* A scaffolding create returned 0, its packages were resolved and its welcome
\* step ran; a framework create returned 1 and left nothing behind.
C15_Witness ==
    \E m1 \in StagehandMarkers, m2 \in FlutterMarkers :
        /\ m1[1] # m2[1]
        /\ DartWelcomeDone(m1)
        /\ CommandsFor("dart.getPackages", m1[1]) = 1
        /\ tasks[m2].pc = "done" /\ tasks[m2].code = Some(1)
        /\ BagCardinality(InfoMessages) = 1
        /\ BagCardinality(ErrorMessages) = 0
        /\ \A cmd \in BagToSet(commands) :
              cmd.args[1] = FsPath(m2[1]) => cmd.name = "_flutter.create"

\* The file-open commands executed for file p.
OpensOf(p) == CopiesIn(Command("vscode.open", <<p>>), commands)

\* C16: in the step in which a welcome step runs (dart.getPackages returns
\* after a successful scaffolding create, or _flutter.create returns 0), one
\* informational message is shown; if the entry file the handler computed
\* exists at that moment, vscode.open is executed once, for that file, and
\* otherwise no vscode.open is executed.
C16_OpenOnlyExistingEntryFile ==
    [][\A m \in Markers :
         (DartWelcomeRuns(m) /\ tasks'[m].pc = "done") \/ FlutterCreateSucceeds(m) =>
            LET entryFile == tasks'[m].entryFile[1]
            IN /\ tasks'[m].entryFile # Undefined
               /\ BagCardinality(InfoMessages') = BagCardinality(InfoMessages) + 1
               /\ ErrorMessages' = ErrorMessages
               /\ IF ExistsSync(files', entryFile)
                  THEN /\ CopiesIn(Command("vscode.open", <<entryFile>>), commands')
                            = CopiesIn(Command("vscode.open", <<entryFile>>), commands) + 1
                       /\ BagCardinality(FileOpens') = BagCardinality(FileOpens) + 1
                  ELSE FileOpens' = FileOpens]_vars

\* A scaffolding welcome step found no entry file and only showed its message;
\* a framework welcome step found lib/main.dart and opened it.
C16_Witness ==
    \E m1 \in StagehandMarkers, m2 \in FlutterMarkers :
        /\ DartWelcomeDone(m1)
        /\ ~ExistsSync(files, tasks[m1].entryFile[1])
        /\ OpensOf(tasks[m1].entryFile[1]) = 0
        /\ tasks[m2].pc = "done" /\ tasks[m2].code = Some(0)
        /\ tasks[m2].entryFile = Some(PathJoin(FsPath(m2[1]), <<"lib", "/", "main.dart">>))
        /\ OpensOf(tasks[m2].entryFile[1]) = 1
        /\ BagCardinality(FileOpens) = 1
        /\ BagCardinality(InfoMessages) = 2

\* ---------------------------------------------------------------------------
\* Claims about what the prompts of showUserPrompts store (lines 104-125).

\* This step is the resolution of the prompt `key` shown by call c.
PromptResolved(c, key) ==
    promptCalls[c].prompts[key] = "awaiting" /\ promptCalls'[c].prompts[key] = "stored"

\* The prompt `key` is the one a call made now would select, were it not seen.
PromptOffered(key) ==
    IF key = installFlutterExtensionPromptKey
    THEN hasAnyFlutterProjects /\ ~hasFlutterExtension
    ELSE /\ ~isDevExtension
         /\ ~(/\ hasAnyFlutterProjects /\ ~hasFlutterExtension
               /\ contextState[InstallStateKey] # Some(TRUE))

\* C17: a prompt that resolves, whether with its button or with no value,
\* stores true under its key; a call made after a display of the prompt has
\* resolved does not display it; a rejected display stores nothing, so that a
\* later call in the same environment displays the prompt again.
C17_ResolvedPromptIsSeen ==
    /\ [][\A c \in 1..MaxCalls, key \in PromptKeys : PromptResolved(c, key) =>
            contextState'[StateKey(key)] = Some(TRUE)]_vars
    /\ [](\A c \in 1..MaxCalls, key \in PromptKeys :
            promptCalls[c].prompts[key] = "stored" => contextState[StateKey(key)] = Some(TRUE))
    /\ [][\A c, d \in 1..MaxCalls, key \in PromptKeys :
            promptCalls[d].prompts[key] = "stored" /\ UserPromptsCalled(c) =>
                promptCalls'[c].prompts[key] = "none"]_vars
    /\ [][\A c \in 1..MaxCalls, key \in PromptKeys : PromptRejected(c, key) =>
            contextState'[StateKey(key)] = contextState[StateKey(key)]]_vars
    /\ [][\A c \in 1..MaxCalls, key \in PromptKeys :
            /\ UserPromptsCalled(c)
            /\ PromptOffered(key)
            /\ contextState[StateKey(key)] # Some(TRUE)
            => promptCalls'[c].prompts[key] = "awaiting"]_vars

\* The install prompt was closed without a click (nothing was opened in the
\* browser) and is stored as seen, so a later call showed the release notes;
\* that display was rejected and the call after it showed them again.
C17_Witness ==
    /\ hasAnyFlutterProjects /\ ~hasFlutterExtension /\ ~isDevExtension
    /\ browser = {}
    /\ promptCalls[1].prompts[installFlutterExtensionPromptKey] = "stored"
    /\ contextState[InstallStateKey] = Some(TRUE)
    /\ promptCalls[2].shown = <<releaseNotesKeyForThisVersion>>
    /\ promptCalls[2].prompts[releaseNotesKeyForThisVersion] = "failed"
    /\ promptCalls[3].shown = <<releaseNotesKeyForThisVersion>>

\* ---------------------------------------------------------------------------
\* Claims about overlapping and skipped calls of
\* showDevToolsNotificationIfAppropriate (lines 75-102).

DevCallStarted(c) == devCalls[c].pc # "idle"

\* C18: of two calls made less than the threshold apart, at most one displays
\* the notification, and the count after the later call is at most one above
\* the count the earlier call read; when the earlier call displayed, the later
\* one read the count and the timestamp the earlier one had already written.
\* This holds whether or not the earlier call is still waiting for the choice.
C18_OverlappingCallsShowOnce ==
    \A c, d \in 1..MaxDevCalls :
        /\ c < d
        /\ DevCallStarted(c) /\ DevCallStarted(d)
        /\ devCalls[d].at - devCalls[c].at < noRepeatPromptThreshold
        => /\ ~(devCalls[c].displayed /\ devCalls[d].displayed)
           /\ devCalls[d].timesShown + (IF devCalls[d].displayed THEN 1 ELSE 0)
                <= devCalls[c].timesShown + 1
           /\ devCalls[c].displayed =>
                /\ devCalls[d].timesShown = devCalls[c].timesShown + 1
                /\ devCalls[d].lastShown = Some(devCalls[c].at)

\* The second call was made while the first was waiting for the choice, less
\* than the threshold later, and was skipped only because of what the first
\* had written.
C18_Witness ==
    /\ devCalls[1].pc = "awaiting"
    /\ devCalls[2].pc = "returned"
    /\ devCalls[2].at > devCalls[1].at
    /\ devCalls[2].at - devCalls[1].at < noRepeatPromptThreshold
    /\ ~devCalls[2].displayed
    /\ ~devCalls[2].doNotShow
    /\ devCalls[2].timesShown < 10
    /\ devCalls[2].timesShown = devCalls[1].timesShown + 1
    /\ devToolsNotificationsShown = devCalls[1].timesShown + 1

\* One of the three skip conditions holds now.
DevToolsSkipDue ==
    \/ devToolsNotificationDoNotShow
    \/ devToolsNotificationsShown >= 10
    \/ /\ devToolsNotificationLastShown # Undefined
       /\ now - devToolsNotificationLastShown[1] < noRepeatPromptThreshold

\* C19: a call made while a skip condition holds returns false at once, without
\* displaying anything, executing a command or writing any of the three
\* throttle fields; a choice other than "do not ask again" (open, no thanks,
\* or closing the notification) leaves the opt-out flag as it was, and "do not
\* ask again" sets it.
C19_SkippedCallWritesNothing ==
    /\ [][\A c \in 1..MaxDevCalls : DevToolsCalled(c) /\ DevToolsSkipDue =>
            /\ devCalls'[c].pc = "returned"
            /\ devCalls'[c].result = Some(FALSE)
            /\ ~devCalls'[c].displayed
            /\ devToolsNotificationsShown' = devToolsNotificationsShown
            /\ devToolsNotificationLastShown' = devToolsNotificationLastShown
            /\ devToolsNotificationDoNotShow' = devToolsNotificationDoNotShow
            /\ commands' = commands
            /\ messages' = messages]_vars
    /\ [][\A c \in 1..MaxDevCalls : DevToolsChosen(c) =>
            IF devCalls'[c].choice = Some(doNotAskAgainAction)
            THEN devToolsNotificationDoNotShow'
            ELSE devToolsNotificationDoNotShow' = devToolsNotificationDoNotShow]_vars

\* The first call was answered with "No Thanks" and the opt-out flag is still
\* unset; the second call came within the threshold and was skipped, leaving
\* the count and the timestamp the first call wrote.
C19_Witness ==
    /\ devCalls[1].pc = "returned"
    /\ devCalls[1].choice = Some(noThanksAction)
    /\ ~devToolsNotificationDoNotShow
    /\ devCalls[2].pc = "returned"
    /\ ~devCalls[2].displayed
    /\ devCalls[2].result = Some(FALSE)
    /\ devCalls[2].at - devCalls[1].at < noRepeatPromptThreshold
    /\ devToolsNotificationsShown = devCalls[2].timesShown
    /\ devToolsNotificationLastShown = Some(devCalls[1].at)

====
